---- MODULE Spec2Model ----
(***************************************************************************)
(* Model of sitemap.py: the batch pipeline                                 *)
(*   makedirs -> walk/filter/date-resolve -> paginate/write -> index.      *)
(* Strings are sequences of one-character strings, so that slicing,        *)
(* stripping, lower-casing and substring search are computed as Python     *)
(* computes them.  A timestamp string "YYYY-MM-DDTHH:MM:SS" is the tuple   *)
(* <<Y, M, D, h, m, s>>.  The wall clock and file mtimes are counted in    *)
(* ticks of 1/TicksPerSecond s, so that dropping the sub-second part is a  *)
(* real operation.                                                         *)
(***************************************************************************)
EXTENDS Integers, Sequences, FiniteSets, TLC

(* ------------------------------ bounds -------------------------------- *)
\* Largest number of files the walk discovers.
MaxFiles == 3
\* Largest --max-url value tried (the smallest is 1).
MaxChunk == 2
\* Last tick the wall clock reaches during a run.
MaxClock == 2

\* Clock resolution: ticks per second (the sub-second part of time.time()).
TicksPerSecond == 2
\* The wall clock when the program starts, in ticks.
ClockStart == 40

\* Python's None, where a timestamp <<Y, M, D, h, m, s>> is expected.
None == <<>>

(* ------------------------------ strings ------------------------------- *)
UpperAlpha == <<"A","B","C","D","E","F","G","H","I","J","K","L","M",
                "N","O","P","Q","R","S","T","U","V","W","X","Y","Z">>
LowerAlpha == <<"a","b","c","d","e","f","g","h","i","j","k","l","m",
                "n","o","p","q","r","s","t","u","v","w","x","y","z">>

UpperSet == {UpperAlpha[k] : k \in 1..26}
LowerOf  == [c \in UpperSet |-> LowerAlpha[CHOOSE k \in 1..26 : UpperAlpha[k] = c]]

\* str.lower() on one character.
LowerChar(c) == IF c \in UpperSet THEN LowerOf[c] ELSE c

\* str.lower()
Lower(s) == [k \in 1..Len(s) |-> LowerChar(s[k])]

\* str.endswith(suf)
EndsWith(s, suf) ==
  /\ Len(suf) <= Len(s)
  /\ SubSeq(s, Len(s) - Len(suf) + 1, Len(s)) = suf

\* str.startswith(pre)
StartsWith(s, pre) ==
  /\ Len(pre) <= Len(s)
  /\ SubSeq(s, 1, Len(pre)) = pre

\* sub in s
Contains(s, sub) ==
  \E k \in 1..(Len(s) - Len(sub) + 1) : SubSeq(s, k, k + Len(sub) - 1) = sub

\* str.rstrip('/'): every trailing slash is removed.
RECURSIVE RStripSlash(_)
RStripSlash(s) ==
  IF Len(s) > 0 /\ s[Len(s)] = "/" THEN RStripSlash(SubSeq(s, 1, Len(s) - 1)) ELSE s

\* str.replace(a, b) for single characters a and b.
Replace(s, a, b) == [k \in 1..Len(s) |-> IF s[k] = a THEN b ELSE s[k]]

\* str(n) for n >= 0: the decimal digits.
Digit(n) == <<"0","1","2","3","4","5","6","7","8","9">>[n + 1]
RECURSIVE Decimal(_)
Decimal(n) == IF n < 10 THEN <<Digit(n)>> ELSE Decimal(n \div 10) \o <<Digit(n % 10)>>

DotHtml     == <<".","h","t","m","l">>
IndexWord   == <<"i","n","d","e","x">>
SlashUser   == <<"/","u","s","e","r","/">>
SitemapWord == <<"s","i","t","e","m","a","p","_">>
DotXml      == <<".","x","m","l">>
IndexName   == <<"s","i","t","e","m","a","p","_","i","n","d","e","x",".","x","m","l">>

(* ------------------------------- paths -------------------------------- *)
\* os.path.join(a, b) for a relative b, with the platform separator sp.
PathJoin(a, b, sp) ==
  IF a = <<>> THEN b
  ELSE IF a[Len(a)] = sp \/ (sp = "\\" /\ a[Len(a)] = "/") THEN a \o b
  ELSE a \o <<sp>> \o b

\* The components of a path: the maximal runs without a separator.
RECURSIVE SplitPath(_, _)
SplitPath(p, sp) ==
  IF p = <<>> THEN <<>>
  ELSE IF p[1] = sp THEN SplitPath(Tail(p), sp)
  ELSE LET n == IF \E k \in 1..Len(p) : p[k] = sp
                THEN (CHOOSE k \in 1..Len(p) :
                        p[k] = sp /\ \A m \in 1..(k - 1) : p[m] # sp) - 1
                ELSE Len(p)
       IN <<SubSeq(p, 1, n)>> \o SplitPath(SubSeq(p, n + 1, Len(p)), sp)

RECURSIVE JoinComponents(_, _)
JoinComponents(cs, sp) ==
  IF cs = <<>> THEN <<>>
  ELSE IF Len(cs) = 1 THEN cs[1]
  ELSE cs[1] \o <<sp>> \o JoinComponents(Tail(cs), sp)

\* os.path.relpath(path, start) for a path at or below start: the components of
\* path after those of start, joined by the separator.
RelPath(path, start, sp) ==
  LET pc_ == SplitPath(path, sp)
      sc  == SplitPath(start, sp)
  IN JoinComponents(SubSeq(pc_, Len(sc) + 1, Len(pc_)), sp)

(* ------------------------------- dates -------------------------------- *)
IsLeap(y) == (y % 4 = 0 /\ y % 100 # 0) \/ y % 400 = 0

DaysInMonth(y, m) ==
  IF m = 2 THEN (IF IsLeap(y) THEN 29 ELSE 28)
  ELSE IF m \in {4, 6, 9, 11} THEN 30 ELSE 31

\* datetime.strptime(date_str, "%Y-%m-%d") then isoformat() at 00:00:00; a
\* ValueError is None.  d is the matched text as <<Y, M, D>>.
ParseDate(d) ==
  IF /\ d[1] >= 1 /\ d[1] <= 9999
     /\ d[2] >= 1 /\ d[2] <= 12
     /\ d[3] >= 1 /\ d[3] <= DaysInMonth(d[1], d[2])
  THEN <<d[1], d[2], d[3], 0, 0, 0>>
  ELSE None

\* datetime.strptime(date_str, "%Y-%m-%d %H:%M:%S") then isoformat(); a
\* ValueError is None.  v is the captured text: <<Y, M, D, h, m, s>>, or a tuple
\* of another length for text that is not of that shape at all.
ParseDateTime(v) ==
  IF Len(v) # 6 THEN None
  ELSE IF /\ ParseDate(<<v[1], v[2], v[3]>>) # None
          /\ v[4] >= 0 /\ v[4] <= 23
          /\ v[5] >= 0 /\ v[5] <= 59
          /\ v[6] >= 0 /\ v[6] <= 59
  THEN v
  ELSE None

\* datetime.fromtimestamp(t).replace(microsecond=0).isoformat() for a time of t
\* ticks within the first day of the epoch.
FromTimestamp(t) ==
  LET s == t \div TicksPerSecond
  IN <<1970, 1, 1, (s \div 3600) % 24, (s \div 60) % 60, s % 60>>

(* ------------------------------- inputs ------------------------------- *)
\* The match of content_date_regex / creation_date_regex at one place of a file.
By(y, m, d) == [kind |-> "by", val |-> <<y, m, d>>]
Cd(v)       == [kind |-> "cd", val |-> v]

GoodBy == By(2017, 6, 12)
GoodCd == Cd(<<2014, 6, 19, 19, 20, 0>>)

\* A file of the tree: the directories from the root down to it, its name, the
\* regex matches of its content in text order, how the filesystem answers for it
\* ("ok"; "denied": open() raises, stat succeeds; "missing": a dangling symlink,
\* open() and stat both raise) and its mtime in ticks.
File(d, n, c, io, mt) == [dir |-> d, file |-> n, content |-> c, io |-> io, mtime |-> mt]

Catalogue == <<
  File(<<"a">>, <<"b",".","h","t","m","l">>, <<GoodBy, GoodCd>>, "ok", 23),
  File(<<>>, <<"I","n","d","e","x",".","h","t","m","l">>, <<GoodBy, GoodCd>>, "ok", 25),
  File(<<"U","s","e","r">>, <<"p",".","h","t","m","l">>, <<>>, "ok", 27),
  File(<<"a">>, <<"c",".","H","T","M","L">>, <<By(2017, 2, 30), GoodBy, GoodCd>>, "ok", 29),
  File(<<>>, <<"n",".","t","x","t">>, <<GoodBy>>, "ok", 31),
  File(<<>>, <<"d",".","h","t","m","l">>,
       <<Cd(<<2014, 6, 19, 24, 0, 0>>), Cd(<<2014, 6>>), GoodCd>>, "ok", 33),
  File(<<>>, <<"e",".","h","t","m","l">>, <<GoodBy, GoodCd>>, "denied", 35),
  File(<<>>, <<"g",".","h","t","m","l">>, <<GoodBy>>, "missing", 37) >>

Roots      == { <<"s">> }
Domains    == { <<"h",":","/","/","e">>,
                <<"h",":","/","/","e","/">>,
                <<"h",":","/","/","e","/","/">>,
                <<"h",":","/","/","e","/","U","S","E","R","/">> }
OutputDirs == { <<"o">>, <<"o","/">>, <<"/","o">> }

\* The command lines and platforms tried: every domain with every output
\* directory where os.sep is '/', and two domains where it is '\'.
Configs ==
  {[domain |-> d, output_dir |-> o, sep |-> "/"] : d \in Domains, o \in OutputDirs}
  \cup {[domain |-> d, output_dir |-> <<"o">>, sep |-> "\\"] :
          d \in {<<"h",":","/","/","e">>, <<"h",":","/","/","e","/">>}}

\* The increasing index sequences over 1..n of length at most k: the files of the
\* catalogue that exist in a tree, in discovery order.
RECURSIVE Picks(_, _, _)
Picks(from, n, k) ==
  IF k = 0 \/ from > n THEN { <<>> }
  ELSE Picks(from + 1, n, k)
       \cup { <<from>> \o p : p \in Picks(from + 1, n, k - 1) }

\* os.walk(root): each file with the directory that holds it.
WalkOf(root, picks, sp) ==
  [k \in 1..Len(picks) |->
     LET c == Catalogue[picks[k]]
     IN [subdir  |-> IF c.dir = <<>> THEN root ELSE PathJoin(root, c.dir, sp),
         file    |-> c.file,
         content |-> c.content,
         io      |-> c.io,
         mtime   |-> c.mtime]]

(* ------------------------- the program's functions -------------------- *)
\* The first match of a regex in the content, as re.search finds it; <<>> if none.
FirstMatch(content, kind) ==
  LET hits == SelectSeq(content, LAMBDA m : m.kind = kind)
  IN IF hits = <<>> THEN <<>> ELSE <<hits[1].val>>

\* Mutant: the first match that is a calendar date is taken, not the first match.
extract_date_from_content_first_valid(f) ==
  IF f.io # "ok" THEN None
  ELSE LET hits == SelectSeq(f.content,
                             LAMBDA m : m.kind = "by" /\ ParseDate(m.val) # None)
       IN IF hits # <<>> THEN ParseDate(hits[1].val) ELSE None

\* extract_date_from_content(file_path): None when open() raises (the error is
\* printed), when nothing matches, and when the first match is no calendar date.
extract_date_from_content(f) ==
  IF f.io # "ok" THEN None
  ELSE LET match == FirstMatch(f.content, "by")
       IN IF match # <<>> THEN ParseDate(match[1]) ELSE None

\* extract_creation_date(file_path)
extract_creation_date(f) ==
  IF f.io # "ok" THEN None
  ELSE LET match == FirstMatch(f.content, "cd")
       IN IF match # <<>> THEN ParseDateTime(match[1]) ELSE None

\* get_file_last_modified(file_path), where os.path.getmtime succeeds.
get_file_last_modified(f) == FromTimestamp(f.mtime)

\* os.path.getmtime(file_path) raises.
StatRaises(f) == f.io = "missing"

\* generate_url(root_directory, file_path, domain)
generate_url(root, file_path, dom, sp) ==
  LET rel_path == RelPath(file_path, root, sp)
      rel_url  == Replace(rel_path, sp, "/")
      d        == IF EndsWith(dom, <<"/">>) THEN SubSeq(dom, 1, Len(dom) - 1) ELSE dom
  IN d \o <<"/">> \o rel_url

\* file.lower().endswith('.html')
IsHtml(file) == EndsWith(Lower(file), DotHtml)

\* Mutant: the test is case-sensitive.
IsUserUrl_cased(url) == Contains(url, SlashUser)

\* "/user/" in url.lower()
IsUserUrl(url) == Contains(Lower(url), SlashUser)

\* Mutant: the test is case-sensitive.
IsIndexName_cased(file) == StartsWith(file, IndexWord)

\* file_lower.startswith("index")
IsIndexName(file) == StartsWith(Lower(file), IndexWord)

\* The date resolution of main for one file at clock t: the lastmod, the number
\* of open() calls made, the number of errors printed, whether the file was
\* stat'ed, and whether an exception left main.
ResolveLastmod(f, t) ==
  IF IsIndexName(f.file)
  THEN [lastmod |-> FromTimestamp(t), opens |-> 0, errors |-> 0,
        stat |-> FALSE, raised |-> FALSE]
  ELSE LET content_date == extract_date_from_content(f)
           bad          == IF f.io # "ok" THEN 1 ELSE 0
       IN IF content_date # None
          THEN [lastmod |-> content_date, opens |-> 1, errors |-> bad,
                stat |-> FALSE, raised |-> FALSE]
          ELSE LET creation == extract_creation_date(f)
               IN IF creation # None
                  THEN [lastmod |-> creation, opens |-> 2, errors |-> 2 * bad,
                        stat |-> FALSE, raised |-> FALSE]
                  ELSE IF StatRaises(f)
                  THEN [lastmod |-> None, opens |-> 2, errors |-> 2 * bad,
                        stat |-> TRUE, raised |-> TRUE]
                  ELSE [lastmod |-> get_file_last_modified(f), opens |-> 2,
                        errors |-> 2 * bad, stat |-> TRUE, raised |-> FALSE]

\* Mutant: the partial last chunk is not counted.
NumSitemaps_floor(total_urls, m) == total_urls \div m

\* num_sitemaps = (total_urls // max_url) + (1 if total_urls % max_url != 0 else 0)
NumSitemaps(total_urls, m) ==
  (total_urls \div m) + (IF total_urls % m # 0 THEN 1 ELSE 0)

Min(a, b) == IF a <= b THEN a ELSE b

\* The slice s[start:end] of a list, 0 <= start <= end.
Slice(s, start, end) == SubSeq(s, start + 1, Min(end, Len(s)))

\* Mutant: the files are numbered from 0.
SitemapFilename_zero_based(i) == SitemapWord \o Decimal(i) \o DotXml

\* f"sitemap_{i+1}.xml"
SitemapFilename(i) == SitemapWord \o Decimal(i + 1) \o DotXml

\* The <url> elements generate_sitemap writes for its entries.
UrlElements(entries) ==
  [k \in 1..Len(entries) |->
     [loc |-> entries[k].loc,
      lastmod |-> IF entries[k].lastmod # <<>> THEN entries[k].lastmod ELSE None]]

\* f"{domain.rstrip('/')}/{output_dir.rstrip('/')}/{sitemap}"
IndexLoc(dom, out, sitemap) ==
  RStripSlash(dom) \o <<"/">> \o RStripSlash(out) \o <<"/">> \o sitemap

\* Mutant: the exception is swallowed and main goes on.
AfterWrite_swallowed(ok, next) == next

\* Where main is after a write: an exception of open()/write() is caught
\* nowhere, so it leaves main.
AfterWrite(ok, next) == IF ok THEN next ELSE "aborted"

(* -------------------------------- state ------------------------------- *)
VARIABLES
  pc,               \* where main is
  root_directory, domain, max_url, output_dir,   \* args
  sep,              \* os.sep
  walk,             \* what os.walk yields, file by file
  wi,               \* the file of the walk the loop is at
  url_entries, total_files,
  entry_src,        \* history: the file of the walk each entry came from
  i, sitemap_filenames,
  sm_elems, j,      \* generate_sitemap_index: the elements so far, the next name
  disk,             \* the output files: path -> document
  writes,           \* history: the paths written, in order
  now,              \* the wall clock at its last reading, in ticks
  opens, stats, printed,   \* history: open() calls, stat calls, errors printed
  out_error,        \* history: makedirs or a write of an output file raised
  exit_status       \* -1 while running

args == <<root_directory, domain, max_url, output_dir, sep, walk>>
vars == <<pc, root_directory, domain, max_url, output_dir, sep, walk, wi,
          url_entries, total_files, entry_src, i, sitemap_filenames, sm_elems, j,
          disk, writes, now, opens, stats, printed, out_error, exit_status>>

EmptyDisk == [p \in {} |-> 0]

Init ==
  /\ pc = "makedirs"
  /\ root_directory \in Roots
  /\ \E c \in Configs :
       /\ domain = c.domain
       /\ output_dir = c.output_dir
       /\ sep = c.sep
  /\ max_url \in 1..MaxChunk
  /\ \E picks \in Picks(1, Len(Catalogue), MaxFiles) :
       walk = WalkOf(root_directory, picks, sep)
  /\ wi = 1
  /\ url_entries = <<>>
  /\ total_files = 0
  /\ entry_src = <<>>
  /\ i = 0
  /\ sitemap_filenames = <<>>
  /\ sm_elems = <<>>
  /\ j = 1
  /\ disk = EmptyDisk
  /\ writes = <<>>
  /\ now = ClockStart
  /\ opens = <<>>
  /\ stats = <<>>
  /\ printed = <<>>
  /\ out_error = FALSE
  /\ exit_status = -1

\* The exit status once main is at p: 1 after an uncaught exception, 0 at the end.
ExitStatus(p) == IF p = "aborted" THEN 1 ELSE IF p = "done" THEN 0 ELSE -1

Repeat(x, n) == [k \in 1..n |-> x]

\* os.makedirs(output_dir, exist_ok=True): it succeeds, or raises.
MakeDirs ==
  /\ pc = "makedirs"
  /\ \E ok \in BOOLEAN :
       /\ pc' = AfterWrite(ok, "walk")
       /\ out_error' = ~ok
  /\ exit_status' = ExitStatus(pc')
  /\ UNCHANGED <<args, wi, url_entries, total_files, entry_src, i, sitemap_filenames,
                 sm_elems, j, disk, writes, now, opens, stats, printed>>

\* datetime.now(): the clock has not gone back since its last reading.
ClockReadings == now..(ClockStart + MaxClock)

\* The file is not filtered out and datetime.now() is called for it.
ReadsClock(f, url) == IsHtml(f.file) /\ ~IsUserUrl(url) /\ IsIndexName(f.file)

\* One pass of the loop over the walked files.
ScanFile ==
  /\ pc = "walk"
  /\ wi <= Len(walk)
  /\ LET f         == walk[wi]
         file_path == PathJoin(f.subdir, f.file, sep)
         url       == generate_url(root_directory, file_path, domain, sep)
     IN
     /\ now' \in (IF ReadsClock(f, url) THEN ClockReadings ELSE {now})
     /\ LET r == ResolveLastmod(f, now')
        IN
        IF ~IsHtml(f.file) \/ IsUserUrl(url)
        THEN /\ wi' = wi + 1
             /\ UNCHANGED <<pc, url_entries, total_files, entry_src, opens, stats,
                            printed>>
        ELSE /\ total_files' = total_files + 1
             /\ opens' = opens \o Repeat(wi, r.opens)
             /\ printed' = printed \o Repeat(wi, r.errors)
             /\ stats' = IF r.stat THEN Append(stats, wi) ELSE stats
             /\ IF r.raised
                THEN /\ pc' = "aborted"
                     /\ UNCHANGED <<wi, url_entries, entry_src>>
                ELSE /\ url_entries' = Append(url_entries, [loc |-> url, lastmod |-> r.lastmod])
                     /\ entry_src' = Append(entry_src, wi)
                     /\ wi' = wi + 1
                     /\ UNCHANGED pc
  /\ exit_status' = ExitStatus(pc')
  /\ UNCHANGED <<args, i, sitemap_filenames, sm_elems, j, disk, writes, out_error>>

\* The walk is over: sitemap_filenames = [], num_sitemaps is computed.
EndWalk ==
  /\ pc = "walk"
  /\ wi > Len(walk)
  /\ sitemap_filenames' = <<>>
  /\ i' = 0
  /\ pc' = IF NumSitemaps(Len(url_entries), max_url) > 0 THEN "write" ELSE "index"
  /\ UNCHANGED <<args, wi, url_entries, total_files, entry_src, sm_elems, j, disk,
                 writes, now, opens, stats, printed, out_error, exit_status>>

\* What a failed write leaves at a path: the file as it was, or a truncated one.
FailedWrite(d, path) ==
  { d, [p \in DOMAIN d \cup {path} |->
          IF p = path THEN [complete |-> FALSE, root |-> "", elems |-> <<>>] ELSE d[p]] }

Written(d, path, doc) ==
  [p \in DOMAIN d \cup {path} |-> IF p = path THEN doc ELSE d[p]]

\* One pass of the loop that writes the sitemap files.
WriteSitemap ==
  /\ pc = "write"
  /\ i < NumSitemaps(Len(url_entries), max_url)
  /\ LET start == i * max_url
         end   == start + max_url
         sitemap_entries   == Slice(url_entries, start, end)
         sitemap_filename  == SitemapFilename(i)
         sitemap_full_path == PathJoin(output_dir, sitemap_filename, sep)
         doc == [complete |-> TRUE, root |-> "urlset",
                 elems |-> UrlElements(sitemap_entries)]
     IN \E ok \in BOOLEAN :
          /\ pc' = AfterWrite(ok, IF i + 1 < NumSitemaps(Len(url_entries), max_url)
                                  THEN "write" ELSE "index")
          /\ out_error' = ~ok
          /\ IF ok
             THEN /\ disk' = Written(disk, sitemap_full_path, doc)
                  /\ writes' = Append(writes, sitemap_full_path)
                  /\ sitemap_filenames' = Append(sitemap_filenames, sitemap_filename)
                  /\ i' = i + 1
             ELSE /\ disk' \in FailedWrite(disk, sitemap_full_path)
                  /\ UNCHANGED <<writes, sitemap_filenames, i>>
  /\ exit_status' = ExitStatus(pc')
  /\ UNCHANGED <<args, wi, url_entries, total_files, entry_src, sm_elems, j, now,
                 opens, stats, printed>>

\* One pass of the loop of generate_sitemap_index.
IndexEntry ==
  /\ pc = "index"
  /\ j <= Len(sitemap_filenames)
  /\ now' \in ClockReadings
  /\ sm_elems' = Append(sm_elems,
                        [loc |-> IndexLoc(domain, output_dir, sitemap_filenames[j]),
                         lastmod |-> FromTimestamp(now')])
  /\ j' = j + 1
  /\ UNCHANGED <<pc, args, wi, url_entries, total_files, entry_src, i,
                 sitemap_filenames, disk, writes, opens, stats, printed,
                 out_error, exit_status>>

\* The end of generate_sitemap_index: the index file is written; then the summary.
WriteIndex ==
  /\ pc = "index"
  /\ j > Len(sitemap_filenames)
  /\ LET index_file == PathJoin(output_dir, IndexName, sep)
         doc == [complete |-> TRUE, root |-> "sitemapindex", elems |-> sm_elems]
     IN \E ok \in BOOLEAN :
          /\ pc' = AfterWrite(ok, "done")
          /\ out_error' = ~ok
          /\ IF ok
             THEN /\ disk' = Written(disk, index_file, doc)
                  /\ writes' = Append(writes, index_file)
             ELSE /\ disk' \in FailedWrite(disk, index_file)
                  /\ UNCHANGED writes
  /\ exit_status' = ExitStatus(pc')
  /\ UNCHANGED <<args, wi, url_entries, total_files, entry_src, i, sitemap_filenames,
                 sm_elems, j, now, opens, stats, printed>>

Next ==
  \/ MakeDirs
  \/ ScanFile
  \/ EndWalk
  \/ WriteSitemap
  \/ IndexEntry
  \/ WriteIndex

Spec == Init /\ [][Next]_vars

(* ----------------------------- properties ----------------------------- *)
\* The path of the k-th sitemap file and of the index file.
SitemapName(k) == SitemapWord \o Decimal(k) \o DotXml
SitemapPath(k) == PathJoin(output_dir, SitemapName(k), sep)
IndexPath      == PathJoin(output_dir, IndexName, sep)

\* The entries of the files sitemap_1 .. sitemap_k on disk, in that order.
RECURSIVE ConcatFiles(_)
ConcatFiles(k) ==
  IF k = 0 THEN <<>> ELSE ConcatFiles(k - 1) \o disk[SitemapPath(k)].elems

\* The walked file an entry came from.
SrcFile(e) == walk[entry_src[e]]

\* The location the spec gives walked file k: the path from the root, with '/'.
RelUrl(k) ==
  LET f == walk[k]
      comps == SplitPath(f.subdir, sep)
      below == SubSeq(comps, Len(SplitPath(root_directory, sep)) + 1, Len(comps))
  IN JoinComponents(below \o <<f.file>>, "/")

LowerHas(s, sub) == Contains(Lower(s), sub)

\* Walked file k passes the filter, as the spec states it.
Qualifies(k) ==
  /\ EndsWith(Lower(walk[k].file), DotHtml)
  /\ ~LowerHas(generate_url(root_directory, PathJoin(walk[k].subdir, walk[k].file, sep),
                            domain, sep), SlashUser)

IndexNamed(f) == StartsWith(Lower(f.file), IndexWord)

\* The number of e with entry_src[e] = k.
TimesEmitted(k) == Cardinality({e \in DOMAIN entry_src : entry_src[e] = k})

\* C1: the sitemap files written so far are sitemap_1 .. sitemap_K, each a
\* complete document of 1..max_url entries, together the first entries of
\* url_entries in order; once the loop is over K = ceil(N / max_url) (0 for
\* N = 0), the files hold url_entries exactly and there is no other sitemap file.
C1_Pagination ==
  LET N == Len(url_entries)
      M == max_url
      K == Len(sitemap_filenames)
  IN /\ M >= 1
     /\ \A k \in 1..K :
          /\ SitemapPath(k) \in DOMAIN disk
          /\ disk[SitemapPath(k)].complete
          /\ Len(disk[SitemapPath(k)].elems) >= 1
          /\ Len(disk[SitemapPath(k)].elems) <= M
     /\ ConcatFiles(K) = SubSeq(url_entries, 1, Min(K * M, N))
     /\ pc \in {"index", "done"} =>
          /\ K * M >= N
          /\ (K - 1) * M < N
          /\ ConcatFiles(K) = url_entries
          /\ DOMAIN disk \subseteq {SitemapPath(k) : k \in 1..K} \cup {IndexPath}

\* Witness of C1: a finished run whose last sitemap file is a partial chunk.
C1_Witness ==
  /\ pc = "done"
  /\ Len(url_entries) = 3
  /\ max_url = 2
  /\ Len(sitemap_filenames) = 2

\* C2: no two entries of the index carry different lastmod values.
C2_SameLastmod ==
  \A a, b \in DOMAIN sm_elems : sm_elems[a].lastmod = sm_elems[b].lastmod

\* C3: the pass of the loop over a qualifying file named index* appends one
\* entry whose lastmod is the wall clock as read in that pass, cut to the second,
\* and neither opens nor stats the file nor prints an error.
C3_IndexOverride ==
  [][ (/\ pc = "walk"
       /\ wi <= Len(walk)
       /\ Qualifies(wi)
       /\ IndexNamed(walk[wi]))
      => (/\ Len(url_entries') = Len(url_entries) + 1
          /\ url_entries'[Len(url_entries')].lastmod
               = <<1970, 1, 1, 0, 0, now' \div TicksPerSecond>>
          /\ SubSeq(url_entries', 1, Len(url_entries)) = url_entries
          /\ UNCHANGED <<opens, stats, printed>>) ]_vars

\* Witness of C3: an entry for a readable index* file whose content has both
\* markers.
C3_Witness ==
  \E e \in DOMAIN url_entries :
    /\ IndexNamed(SrcFile(e))
    /\ SrcFile(e).io = "ok"
    /\ Len(SrcFile(e).content) = 2

\* The lastmod the strategies give a file that is not named index*, in the
\* order content date, creationDate, mtime; a file that cannot be opened has
\* no match.
FirstOfKind(f, kind) ==
  IF f.io = "ok" /\ \E m \in DOMAIN f.content : f.content[m].kind = kind
  THEN <<f.content[CHOOSE m \in DOMAIN f.content :
                     /\ f.content[m].kind = kind
                     /\ \A n \in 1..(m - 1) : f.content[n].kind # kind].val>>
  ELSE <<>>

Expected(f) ==
  LET by == FirstOfKind(f, "by")
      cd == FirstOfKind(f, "cd")
  IN IF by # <<>> /\ ParseDate(by[1]) # None
     THEN <<by[1][1], by[1][2], by[1][3], 0, 0, 0>>
     ELSE IF cd # <<>> /\ ParseDateTime(cd[1]) # None
     THEN cd[1]
     ELSE <<1970, 1, 1, 0, 0, f.mtime \div TicksPerSecond>>

\* C4: every qualifying file not named index* that the loop has passed has
\* exactly one entry, and the lastmod of every such entry is that of the first
\* strategy that succeeds, in the order content date, creationDate, mtime.
C4_StrategyOrder ==
  /\ \A e \in DOMAIN url_entries :
       ~IndexNamed(SrcFile(e)) => url_entries[e].lastmod = Expected(SrcFile(e))
  /\ \A k \in 1..(wi - 1) :
       (Qualifies(k) /\ ~IndexNamed(walk[k])) => TimesEmitted(k) = 1

\* Witness of C4: an entry for a file whose first content-date match is no
\* calendar date and is followed by a valid one, resolved by the creationDate.
C4_Witness ==
  \E e \in DOMAIN url_entries :
    /\ ~IndexNamed(SrcFile(e))
    /\ Len(SrcFile(e).content) = 3
    /\ SrcFile(e).content[1].kind = "by"
    /\ url_entries[e].lastmod = <<2014, 6, 19, 19, 20, 0>>

\* C5: a qualifying file not named index* whose content scan printed an I/O
\* error has an entry, with the mtime as lastmod, and the run has not failed on
\* it.
C5_ReadErrorFallsBack ==
  \A k \in 1..Len(walk) :
    (\E m \in DOMAIN printed : printed[m] = k) =>
      /\ \E e \in DOMAIN url_entries :
           /\ entry_src[e] = k
           /\ url_entries[e].lastmod = <<1970, 1, 1, 0, 0, walk[k].mtime \div TicksPerSecond>>
      /\ ~(pc = "aborted" /\ wi = k)

\* C6: the entries are those of the qualifying files passed so far, one each in
\* walk order, no location contains "/user/" in any case, in url_entries or in
\* a sitemap file; a finished run has every qualifying file of the walk in its
\* sitemap files exactly once.
C6_Filter ==
  /\ entry_src = SelectSeq([k \in 1..(wi - 1) |-> k], Qualifies)
  /\ \A e \in DOMAIN url_entries : ~LowerHas(url_entries[e].loc, SlashUser)
  /\ \A p \in DOMAIN disk :
       disk[p].root = "urlset" =>
         \A e \in DOMAIN disk[p].elems : ~LowerHas(disk[p].elems[e].loc, SlashUser)
  /\ pc = "done" =>
       /\ \A k \in 1..Len(walk) : TimesEmitted(k) = IF Qualifies(k) THEN 1 ELSE 0
       /\ Len(ConcatFiles(Len(sitemap_filenames))) = Len(entry_src)
       /\ \A e \in DOMAIN entry_src :
            ConcatFiles(Len(sitemap_filenames))[e].loc = url_entries[e].loc

\* Witness of C6: a finished run over a tree with an .html file under User/
\* that was left out and another file that was emitted.
C6_Witness ==
  /\ pc = "done"
  /\ url_entries # <<>>
  /\ \E k \in 1..Len(walk) :
       /\ EndsWith(Lower(walk[k].file), DotHtml)
       /\ ~Qualifies(k)
       /\ ~LowerHas(domain, SlashUser)

\* C7: when makedirs or a write of an output file raises, main is aborted with
\* exit status 1, the index file is not written, and from then on no file is
\* written and every file written before is as it was.
C7_WriteFailureFatal ==
  [][ /\ out_error' =>
        /\ pc' = "aborted"
        /\ exit_status' = 1
        /\ writes' = writes
        /\ \A m \in DOMAIN writes :
             writes[m] # IndexPath /\ disk'[writes[m]] = disk[writes[m]]
      /\ out_error => UNCHANGED <<disk, writes>> ]_vars

\* Witness of C7: the write of the second sitemap file failed and left a
\* truncated file, after the first was written.
C7_Witness ==
  /\ out_error
  /\ pc = "aborted"
  /\ Len(writes) = 1
  /\ SitemapPath(2) \in DOMAIN disk
  /\ ~disk[SitemapPath(2)].complete

\* C8: the index file is written at most once, as the last write of a run that
\* has written sitemap_1 .. sitemap_K for all K chunks; it then lists exactly
\* these, in order; a finished run has written it.
C8_IndexLast ==
  LET K == Len(writes) - 1
  IN /\ Cardinality({m \in DOMAIN writes : writes[m] = IndexPath}) <= 1
     /\ (pc = "done") <=> (\E m \in DOMAIN writes : writes[m] = IndexPath)
     /\ pc = "done" =>
          /\ writes[Len(writes)] = IndexPath
          /\ K * max_url >= Len(url_entries)
          /\ (K - 1) * max_url < Len(url_entries)
          /\ \A k \in 1..K : writes[k] = SitemapPath(k) /\ disk[writes[k]].complete
          /\ disk[IndexPath].complete
          /\ Len(disk[IndexPath].elems) = K
          /\ \A k \in 1..K :
               EndsWith(disk[IndexPath].elems[k].loc, <<"/">> \o SitemapName(k))

\* Witness of C8: a finished run with two sitemap files and the index.
C8_Witness ==
  /\ pc = "done"
  /\ Len(writes) = 3

\* C9: in every location of the index, the slash after the domain and the
\* slash before the file name are single.
C9_SingleSlashJoins ==
  \A e \in DOMAIN sm_elems :
    LET loc  == sm_elems[e].loc
        atD  == Len(RStripSlash(domain)) + 1
        atF  == Len(loc) - Len(sitemap_filenames[e])
    IN /\ loc[atD] = "/"
       /\ loc[atD + 1] # "/"
       /\ loc[atF] = "/"
       /\ loc[atF - 1] # "/"

\* C10: every location is the domain without its trailing slash, one '/', and
\* the path of the file from the root with '/' between its parts; there is no
\* second slash next to that '/'; different files have different locations.
C10_UrlJoin ==
  /\ \A e \in DOMAIN url_entries :
       LET loc == url_entries[e].loc
           rel == RelUrl(entry_src[e])
           at  == Len(loc) - Len(rel)
       IN /\ EndsWith(loc, <<"/">> \o rel)
          /\ SubSeq(loc, 1, at - 1)
               = (IF EndsWith(domain, <<"/">>)
                  THEN SubSeq(domain, 1, Len(domain) - 1) ELSE domain)
          /\ loc[at - 1] # "/"
  /\ \A a, b \in DOMAIN url_entries :
       url_entries[a].loc = url_entries[b].loc => a = b
====
